---- MODULE Spec2Model ----
(***************************************************************************)
(* Model of Step3/SpriteBatch.cpp: a sprite batch that buffers draw        *)
(* requests between Begin() and End() and, in End(), renders them in       *)
(* portions of consecutive sprites that share one texture.                 *)
(*                                                                         *)
(* Begin() and Draw() are one action each.  End() is a sequence of steps   *)
(* (pc): the entry with its early return and GPU set-up, the test of the   *)
(* portion loop, and the GPU calls of RenderPortion in program order.      *)
(* Client calls happen only when no End() is running (pc = "idle"): the    *)
(* class is used from one thread.                                          *)
(*                                                                         *)
(* Coordinates, sizes and scales are integers that a float represents      *)
(* exactly, so float arithmetic on them is exact.  Indices and counts are  *)
(* unsigned (32 bits) in the code; no list explored here comes near 2^32   *)
(* sprites, so their arithmetic is the integers'.                          *)
(***************************************************************************)
EXTENDS Integers, Sequences, FiniteSets, TLC

----------------------------------------------------------------------------
(* Program constants *)

INDICES_PER_SPRITE == 6

VERTICES_PER_SPRITE == 4

MAX_PORTION_SIZE == 2000

\* unsigned short: the element type of the index buffer
UShortRange == 65536

----------------------------------------------------------------------------
(* Bounds of the exploration *)

\* Draw() calls with any arguments explored from the freshly constructed batch
MaxDraws == 2

\* Draw() calls with the default arguments explored from the freshly
\* constructed batch
MaxGroupDraws == 4

\* Draw() calls with the default arguments explored on top of a long list
MaxTail == 2

\* End() calls explored in one behaviour
MaxEnds == 2

----------------------------------------------------------------------------
(* Inputs *)

Textures == {"A", "B"}

\* Texture2D::GetWidth / GetHeight of the textures used
TexWidth(t) == IF t = "A" THEN 32 ELSE 16

TexHeight(t) == IF t = "A" THEN 32 ELSE 8

\* Colors by their channels r, g, b, a, each 0.0 or 1.0
WHITE == <<1, 1, 1, 1>>

RED == <<1, 0, 0, 1>>

\* Color::ToUInt: each channel times 255 as one byte of the unsigned, r the
\* lowest; the unsigned is kept as its four bytes, lowest first
ToUInt(c) == [b \in 1..4 |-> c[b] * 255]

\* SinCos of the angles used, 0 and 90
Sin(angle) == IF angle = 90 THEN 1 ELSE 0

Cos(angle) == IF angle = 90 THEN 0 ELSE 1

\* What a caller passes to Draw() besides the texture
Placements ==
    { [position_ |-> <<10, 10>>, color_ |-> WHITE, rotation_ |-> 0,
       origin_ |-> <<0, 0>>, scale_ |-> 1],
      [position_ |-> <<10, 10>>, color_ |-> RED, rotation_ |-> 0,
       origin_ |-> <<16, 16>>, scale_ |-> 1],
      [position_ |-> <<5, 7>>, color_ |-> WHITE, rotation_ |-> 0,
       origin_ |-> <<1, 2>>, scale_ |-> 2],
      [position_ |-> <<5, 7>>, color_ |-> RED, rotation_ |-> 90,
       origin_ |-> <<1, 2>>, scale_ |-> 1] }

\* SBSprite { texture, position, color, rotation, origin, scale }
SBSprite(texture, p) ==
    [texture_ |-> texture, position_ |-> p.position_, color_ |-> p.color_,
     rotation_ |-> p.rotation_, origin_ |-> p.origin_, scale_ |-> p.scale_]

\* Graphics::GetWidth / GetHeight
Screens == {<<800, 600>>}

\* color = WHITE, rotation = 0, origin = ZERO, scale = 1
DefaultPlacement ==
    [position_ |-> <<10, 10>>, color_ |-> WHITE, rotation_ |-> 0,
     origin_ |-> <<0, 0>>, scale_ |-> 1]

\* A list that n Draw() calls with one texture and the default arguments build
UniformList(t, n) == [i \in 1..n |-> SBSprite(t, DefaultPlacement)]

\* A list that the program holds after MAX_PORTION_SIZE such calls
LongLists == {UniformList("A", MAX_PORTION_SIZE)}

----------------------------------------------------------------------------
(* State *)

VARIABLES
    sprites_,          \* the accumulated SBSprite list
    indexBuffer,       \* contents of indexBuffer_, element n at n (from 0)
    vbLocked,          \* vertexBuffer_ is locked
    lockRange,         \* <<start, count>> of the last Lock of vertexBuffer_
    vertices,          \* the locked region of vertexBuffer_, slot j at j (from 0)
    gpu,               \* state of the Graphics subsystem set by End()
    pc,                \* position in End(), "idle" outside it
    startSpriteIndex,  \* local of End()
    count,             \* local of End() / parameter of RenderPortion
    trace,             \* calls on Graphics and vertexBuffer_ made by the last End()
    submitted,         \* history: requests passed to Draw() since the last Begin()
    begun,             \* history: Begin() has been called
    portions,          \* history: the <<start, count>> passed to RenderPortion by the last End()
    untouched,         \* history: no Begin()/Draw() since the last End() returned
    prevEnd,           \* history: what the End() before the last drew, if the list was untouched since
    drawsLeft,         \* exploration budget of Draw() calls
    endsLeft           \* exploration budget of End() calls

vars == <<sprites_, indexBuffer, vbLocked, lockRange, vertices, gpu, pc,
          startSpriteIndex, count, trace, submitted, begun, portions,
          untouched, prevEnd, drawsLeft, endsLeft>>

\* What End() and RenderPortion can change outside the object
gpuVars == <<vbLocked, lockRange, vertices, gpu>>

Size(s) == Len(s)

\* sprites_[i], i from 0
At(s, i) == s[i + 1]

----------------------------------------------------------------------------
(* Constructor *)

\* Vertex slot offsets of the two triangles of a sprite
TriangleCorners == <<0, 1, 2, 2, 3, 0>>

\* The index stored in an unsigned char
IndexElementByte(n) ==
    ((n \div INDICES_PER_SPRITE) * VERTICES_PER_SPRITE
        + TriangleCorners[(n % INDICES_PER_SPRITE) + 1]) % 256

\* buffer[i * INDICES_PER_SPRITE + k] = i * VERTICES_PER_SPRITE + corner,
\* stored in an unsigned short
IndexElement(n) ==
    ((n \div INDICES_PER_SPRITE) * VERTICES_PER_SPRITE
        + TriangleCorners[(n % INDICES_PER_SPRITE) + 1]) % UShortRange

\* indexBuffer_->SetSize(MAX_PORTION_SIZE * INDICES_PER_SPRITE)
IndexBufferSize == MAX_PORTION_SIZE * INDICES_PER_SPRITE

\* vertexBuffer_->SetSize(MAX_PORTION_SIZE * VERTICES_PER_SPRITE, ...)
VertexBufferSize == MAX_PORTION_SIZE * VERTICES_PER_SPRITE

BuildIndexBuffer == [n \in 0..(IndexBufferSize - 1) |-> IndexElement(n)]

\* A fraction n/d of a matrix entry
Frac(n, d) == <<n, d>>

ZeroMatrix4 ==
    [r \in 1..4 |-> [c \in 1..4 |-> Frac(0, 1)]]

\* The Graphics state before the first End()
NoGpuState ==
    [blendMode |-> "unset", vertexBuffer |-> "unset", indexBuffer |-> "unset",
     shaders |-> "unset", matDiffColor |-> <<0, 0, 0, 0>>, model |-> "unset",
     viewProj |-> ZeroMatrix4, texture |-> "unset"]

\* The state the constructor leaves, but for the list and the budgets
Constructed ==
    /\ indexBuffer = BuildIndexBuffer
    /\ vbLocked = FALSE
    /\ lockRange = <<0, 0>>
    /\ vertices = <<>>
    /\ gpu = NoGpuState
    /\ pc = "idle"
    /\ startSpriteIndex = 0
    /\ count = 0
    /\ trace = <<>>
    /\ submitted = <<>>
    /\ begun = FALSE
    /\ portions = <<>>
    /\ untouched = FALSE
    /\ prevEnd = [valid |-> FALSE, portions |-> <<>>, draws |-> <<>>]
    /\ endsLeft = MaxEnds

\* After construction
Init ==
    /\ sprites_ = <<>>
    /\ drawsLeft = MaxDraws
    /\ Constructed

\* After construction, or after the Draw() calls that build a long list
GroupInit ==
    /\ \/ sprites_ = <<>> /\ drawsLeft = MaxGroupDraws
       \/ sprites_ \in LongLists /\ drawsLeft = MaxTail
    /\ Constructed

----------------------------------------------------------------------------
(* Begin and Draw *)

\* Begin() that leaves the list as it is
ClearNothing(s) == s

\* sprites_.Clear()
Clear(s) == <<>>

Begin ==
    /\ pc = "idle"
    /\ sprites_' = Clear(sprites_)
    /\ submitted' = <<>>
    /\ begun' = TRUE
    /\ untouched' = FALSE
    /\ UNCHANGED <<indexBuffer, gpuVars, pc, startSpriteIndex, count, trace,
                   portions, prevEnd, drawsLeft, endsLeft>>

\* The sprite put at the front of the list
PushFront(s, sprite) == <<sprite>> \o s

\* sprites_.Push(sprite)
Push(s, sprite) == Append(s, sprite)

\* Draw() with a placement out of `placements`
DrawWith(placements) ==
    /\ pc = "idle"
    /\ drawsLeft > 0
    /\ \E texture \in Textures, p \in placements :
         LET sprite == SBSprite(texture, p) IN
         /\ sprites_' = Push(sprites_, sprite)
         /\ submitted' = IF begun THEN Append(submitted, sprite) ELSE submitted
    /\ drawsLeft' = drawsLeft - 1
    /\ untouched' = FALSE
    /\ UNCHANGED <<indexBuffer, gpuVars, pc, startSpriteIndex, count, trace,
                   begun, portions, prevEnd, endsLeft>>

Draw == DrawWith(Placements)

\* Draw(texture, position) with the default color, rotation, origin and scale
DrawDefault == DrawWith({DefaultPlacement})

----------------------------------------------------------------------------
(* GetPortionLength *)

\* The loop without its texture comparison
PortionBreakAnyTexture(s, start, n) ==
    \/ n >= MAX_PORTION_SIZE
    \/ start + n = Size(s)

\* The loop without its size bound
PortionBreakUnbounded(s, start, n) ==
    \/ start + n = Size(s)
    \/ At(s, start + n).texture_ # At(s, start).texture_

\* The loop with its size bound off by one
PortionBreakLate(s, start, n) ==
    \/ n > MAX_PORTION_SIZE
    \/ start + n = Size(s)
    \/ At(s, start + n).texture_ # At(s, start).texture_

\* The three breaks of the loop, for the current count
PortionBreak(s, start, n) ==
    \/ n >= MAX_PORTION_SIZE
    \/ start + n = Size(s)
    \/ At(s, start + n).texture_ # At(s, start).texture_

\* One iteration of the loop from count n: break, or count++
PortionIteration(s, start, n) ==
    IF PortionBreak(s, start, n) THEN n ELSE n + 1

\* A stretch of level k is 2^k iterations of the loop (evaluation depth only:
\* the iterations are those of the loop, in its order)
LoopLevels == 11

\* The loop from count n: iterations until a break, for at most one stretch
\* of the given level; m is the count after half the stretch
RECURSIVE PortionLoop(_, _, _, _)
PortionLoop(s, start, n, level) ==
    IF level = 0
    THEN PortionIteration(s, start, n)
    ELSE CHOOSE result \in
           { IF PortionBreak(s, start, m)
             THEN m
             ELSE PortionLoop(s, start, m, level - 1) :
               m \in {PortionLoop(s, start, n, level - 1)} } : TRUE

\* The loop from count n to its break, a stretch at a time; m is the count
\* after a stretch
RECURSIVE PortionScan(_, _, _)
PortionScan(s, start, n) ==
    CHOOSE result \in
        { IF PortionBreak(s, start, m) THEN m ELSE PortionScan(s, start, m) :
            m \in {PortionLoop(s, start, n, LoopLevels)} } : TRUE

\* unsigned count = 1; while (true) { ... count++; } return count;
GetPortionLength(s, start) == PortionScan(s, start, 1)

----------------------------------------------------------------------------
(* RenderPortion: the vertices of one sprite *)

\* Matrix3 * Vector3, the matrix by rows
Mul(m, v) ==
    << m[1][1] * v[1] + m[1][2] * v[2] + m[1][3] * v[3],
       m[2][1] * v[1] + m[2][2] * v[2] + m[2][3] * v[3],
       m[3][1] * v[1] + m[3][2] * v[2] + m[3][3] * v[3] >>

\* Matrix3 transform { ... }
Transform(sprite) ==
    LET sin == Sin(sprite.rotation_)
        cos == Cos(sprite.rotation_)
        scale == sprite.scale_
        ox == sprite.origin_[1]
        oy == sprite.origin_[2]
        px == sprite.position_[1]
        py == sprite.position_[2]
    IN << << cos * scale, -sin * scale, -ox * cos * scale + oy * sin * scale + px >>,
          << sin * scale, cos * scale, -ox * sin * scale - oy * cos * scale + py >>,
          << 0, 0, 1 >> >>

\* v0..v3: the corners of the texture rectangle in homogeneous coordinates
Corner(k, w, h) ==
    CASE k = 0 -> <<0, 0, 1>>
      [] k = 1 -> <<w, 0, 1>>
      [] k = 2 -> <<w, h, 1>>
      [] k = 3 -> <<0, h, 1>>

\* if (rotation == 0.0f && scale == 1.0f)
IsPlain(sprite) == sprite.rotation_ = 0 /\ sprite.scale_ = 1

\* The branch with the origin left out
PlainPositionNoOrigin(sprite, k, w, h) ==
    LET x == sprite.position_[1]
        y == sprite.position_[2]
    IN CASE k = 0 -> <<x, y, 0>>
         [] k = 1 -> <<x + w, y, 0>>
         [] k = 2 -> <<x + w, y + h, 0>>
         [] k = 3 -> <<x, y + h, 0>>

\* The branch for a sprite that is neither rotated nor scaled
PlainPosition(sprite, k, w, h) ==
    LET x == sprite.position_[1] - sprite.origin_[1]
        y == sprite.position_[2] - sprite.origin_[2]
    IN CASE k = 0 -> <<x, y, 0>>
         [] k = 1 -> <<x + w, y, 0>>
         [] k = 2 -> <<x + w, y + h, 0>>
         [] k = 3 -> <<x, y + h, 0>>

\* The branch with the transform: v = transform * v; v.z_ = 0.0f
TransformedPosition(sprite, k, w, h) ==
    LET v == Mul(Transform(sprite), Corner(k, w, h)) IN <<v[1], v[2], 0>>

VertexPosition(sprite, k, w, h) ==
    IF IsPlain(sprite)
    THEN PlainPosition(sprite, k, w, h)
    ELSE TransformedPosition(sprite, k, w, h)

\* uv_ of the four vertices
VertexUV(k) ==
    CASE k = 0 -> <<0, 0>>
      [] k = 1 -> <<1, 0>>
      [] k = 2 -> <<1, 1>>
      [] k = 3 -> <<0, 1>>

\* SBVertex number k of a sprite
SBVertex(sprite, k, w, h) ==
    [position_ |-> VertexPosition(sprite, k, w, h),
     color_ |-> ToUInt(sprite.color_),
     uv_ |-> VertexUV(k)]

\* SBSprite* sprite = sprites_.Buffer() + start + i
PortionSprite(s, start, i) == At(s, start + i)

\* The for loop: vertices[i * VERTICES_PER_SPRITE + k] for i < count, k < 4
WritePortion(s, start, n, w, h) ==
    [j \in 0..(n * VERTICES_PER_SPRITE - 1) |->
        SBVertex(PortionSprite(s, start, j \div VERTICES_PER_SPRITE),
                 j % VERTICES_PER_SPRITE, w, h)]

----------------------------------------------------------------------------
(* End *)

Call(op, args) == [op |-> op, args |-> args]

\* Matrix4 viewProjMatrix for a screen of w x h pixels
ViewProjMatrix(w, h) ==
    << << Frac(2, w), Frac(0, 1), Frac(0, 1), Frac(-1, 1) >>,
       << Frac(0, 1), Frac(-2, h), Frac(0, 1), Frac(1, 1) >>,
       << Frac(0, 1), Frac(0, 1), Frac(1, 1), Frac(0, 1) >>,
       << Frac(0, 1), Frac(0, 1), Frac(0, 1), Frac(1, 1) >> >>

\* The Graphics calls of End() before the portion loop
SetupCalls(w, h) ==
    << Call("SetBlendMode", <<"BLEND_ALPHA">>),
       Call("SetVertexBuffer", <<"vertexBuffer_">>),
       Call("SetIndexBuffer", <<"indexBuffer_">>),
       Call("SetShaders", <<"vs_", "ps_">>),
       Call("SetShaderParameter", <<"PSP_MATDIFFCOLOR", WHITE>>),
       Call("SetShaderParameter", <<"VSP_MODEL", "IDENTITY">>),
       Call("SetShaderParameter", <<"VSP_VIEWPROJ", ViewProjMatrix(w, h)>>) >>

\* Their effect on the Graphics state
SetupState(g, w, h) ==
    [g EXCEPT !.blendMode = "BLEND_ALPHA",
              !.vertexBuffer = "vertexBuffer_",
              !.indexBuffer = "indexBuffer_",
              !.shaders = "Basic DIFFMAP VERTEXCOLOR",
              !.matDiffColor = WHITE,
              !.model = "IDENTITY",
              !.viewProj = ViewProjMatrix(w, h)]

\* The arguments of the calls of a trace with the given name
RECURSIVE CallsOf(_, _)
CallsOf(t, op) ==
    IF t = <<>> THEN <<>>
    ELSE IF Head(t).op = op
         THEN <<Head(t).args>> \o CallsOf(Tail(t), op)
         ELSE CallsOf(Tail(t), op)

\* End() without its early return
EndNeverEmpty(s) == FALSE

\* The list is empty: return
EndIsEmpty(s) == Size(s) = 0

\* End() up to the portion loop
End ==
    /\ pc = "idle"
    /\ endsLeft > 0
    /\ endsLeft' = endsLeft - 1
    /\ prevEnd' = [valid |-> untouched, portions |-> portions,
                   draws |-> CallsOf(trace, "Draw")]
    /\ portions' = <<>>
    /\ IF EndIsEmpty(sprites_)
       THEN /\ trace' = <<>>
            /\ untouched' = TRUE
            /\ UNCHANGED <<gpuVars, pc, startSpriteIndex>>
       ELSE /\ \E screen \in Screens :
                 /\ gpu' = SetupState(gpu, screen[1], screen[2])
                 /\ trace' = SetupCalls(screen[1], screen[2])
            /\ startSpriteIndex' = 0
            /\ pc' = "loop"
            /\ UNCHANGED <<vbLocked, lockRange, vertices, untouched>>
    /\ UNCHANGED <<sprites_, indexBuffer, count, submitted, begun, drawsLeft>>

\* while (startSpriteIndex != sprites_.Size())
LoopContinues(start, s) == start # Size(s)

\* The loop test, and count = GetPortionLength(startSpriteIndex) with the
\* call of RenderPortion(startSpriteIndex, count)
EndLoop ==
    /\ pc = "loop"
    /\ IF LoopContinues(startSpriteIndex, sprites_)
       THEN /\ count' = GetPortionLength(sprites_, startSpriteIndex)
            /\ portions' = Append(portions, <<startSpriteIndex, count'>>)
            /\ pc' = "lock"
            /\ UNCHANGED untouched
       ELSE /\ pc' = "idle"
            /\ untouched' = TRUE
            /\ UNCHANGED <<count, portions>>
    /\ UNCHANGED <<sprites_, indexBuffer, gpuVars, startSpriteIndex, trace,
                   submitted, begun, prevEnd, drawsLeft, endsLeft>>

\* The number of vertex slots RenderPortion locks and draws
PortionVertices(n) == n * VERTICES_PER_SPRITE

\* The number of indices RenderPortion draws
PortionIndices(n) == n * INDICES_PER_SPRITE

\* vertexBuffer_->Lock(0, count * VERTICES_PER_SPRITE, true)
LockVertices ==
    /\ pc = "lock"
    /\ vbLocked' = TRUE
    /\ lockRange' = <<0, PortionVertices(count)>>
    /\ vertices' = <<>>
    /\ trace' = Append(trace, Call("Lock", <<0, PortionVertices(count)>>))
    /\ pc' = "write"
    /\ UNCHANGED <<sprites_, indexBuffer, gpu, startSpriteIndex, count,
                   submitted, begun, portions, untouched, prevEnd, drawsLeft,
                   endsLeft>>

\* Texture2D* texture = sprites_[start].texture_
PortionTexture(s, start) == At(s, start).texture_

\* The for loop over the sprites of the portion
WriteVertices ==
    /\ pc = "write"
    /\ LET texture == PortionTexture(sprites_, startSpriteIndex) IN
         vertices' = WritePortion(sprites_, startSpriteIndex, count,
                                  TexWidth(texture), TexHeight(texture))
    /\ trace' = Append(trace, Call("Write", <<startSpriteIndex, count>>))
    /\ pc' = "unlock"
    /\ UNCHANGED <<sprites_, indexBuffer, vbLocked, lockRange, gpu,
                   startSpriteIndex, count, submitted, begun, portions,
                   untouched, prevEnd, drawsLeft, endsLeft>>

\* RenderPortion without its Unlock
UnlockForgotten ==
    /\ pc = "unlock"
    /\ pc' = "texture"
    /\ UNCHANGED <<sprites_, indexBuffer, gpuVars, startSpriteIndex, count,
                   trace, submitted, begun, portions, untouched, prevEnd,
                   drawsLeft, endsLeft>>

\* vertexBuffer_->Unlock()
UnlockVertices ==
    /\ pc = "unlock"
    /\ vbLocked' = FALSE
    /\ trace' = Append(trace, Call("Unlock", <<>>))
    /\ pc' = "texture"
    /\ UNCHANGED <<sprites_, indexBuffer, lockRange, vertices, gpu,
                   startSpriteIndex, count, submitted, begun, portions,
                   untouched, prevEnd, drawsLeft, endsLeft>>

\* graphics_->SetTexture(TU_DIFFUSE, texture)
SetTexture ==
    /\ pc = "texture"
    /\ LET texture == PortionTexture(sprites_, startSpriteIndex) IN
         /\ gpu' = [gpu EXCEPT !.texture = texture]
         /\ trace' = Append(trace, Call("SetTexture", <<"TU_DIFFUSE", texture>>))
    /\ pc' = "draw"
    /\ UNCHANGED <<sprites_, indexBuffer, vbLocked, lockRange, vertices,
                   startSpriteIndex, count, submitted, begun, portions,
                   untouched, prevEnd, drawsLeft, endsLeft>>

\* The start index left where it is
NextStartStuck(start, n) == start

\* startSpriteIndex += count
NextStart(start, n) == start + n

\* graphics_->Draw(TRIANGLE_LIST, 0, count * INDICES_PER_SPRITE, 0,
\* count * VERTICES_PER_SPRITE), the return to End() and startSpriteIndex += count
DrawPortion ==
    /\ pc = "draw"
    /\ trace' = Append(trace, Call("Draw", <<0, PortionIndices(count),
                                             0, PortionVertices(count)>>))
    /\ startSpriteIndex' = NextStart(startSpriteIndex, count)
    /\ pc' = "loop"
    /\ UNCHANGED <<sprites_, indexBuffer, gpuVars, count, submitted, begun,
                   portions, untouched, prevEnd, drawsLeft, endsLeft>>

\* A step inside a running End()
EndStep ==
    \/ EndLoop
    \/ LockVertices
    \/ WriteVertices
    \/ UnlockVertices
    \/ SetTexture
    \/ DrawPortion

Next ==
    \/ Begin
    \/ Draw
    \/ End
    \/ EndStep

Spec == Init /\ [][Next]_vars

\* The same program called with the default arguments only, from GroupInit
GroupNext ==
    \/ Begin
    \/ DrawDefault
    \/ End
    \/ EndStep

GroupSpec == GroupInit /\ [][GroupNext]_vars

\* After construction, or after the Draw() calls that build a long list,
\* with MaxTail further Draw() calls in either case
LoopInit ==
    /\ sprites_ = <<>> \/ sprites_ \in LongLists
    /\ drawsLeft = MaxTail
    /\ Constructed

\* End() runs to its return: the code has no suspension point
LoopSpec == LoopInit /\ [][GroupNext]_vars /\ WF_vars(EndStep)

----------------------------------------------------------------------------
(* Portions *)

Min(a, b) == IF a < b THEN a ELSE b

\* The sprites of the list from index `start` (from 0) on whose texture is
\* not that of the sprite at `start`
OtherTextureAfter(s, start) ==
    {e \in (start + 1)..(Size(s) - 1) : At(s, e).texture_ # At(s, start).texture_}

\* The length of the longest run of sprites from `start` with one texture
RunLength(s, start) ==
    LET others == OtherTextureAfter(s, start) IN
    IF others = {}
    THEN Size(s) - start
    ELSE (CHOOSE e \in others : \A f \in others : e <= f) - start

\* The portions ps are consecutive ranges of s from index 0, each of one
\* texture and of 1..MAX_PORTION_SIZE sprites
ConsecutivePortions(ps, s) ==
    \A i \in 1..Len(ps) :
        LET start == ps[i][1]
            n == ps[i][2]
        IN /\ start = (IF i = 1 THEN 0 ELSE ps[i - 1][1] + ps[i - 1][2])
           /\ n >= 1
           /\ n <= MAX_PORTION_SIZE
           /\ start + n <= Size(s)
           /\ \A k \in start..(start + n - 1) :
                 At(s, k).texture_ = At(s, start).texture_

\* The portions ps end where s ends
PortionsCover(ps, s) ==
    /\ ps # <<>>
    /\ ps[Len(ps)][1] + ps[Len(ps)][2] = Size(s)

\* An End() has returned and no Begin() or Draw() has been called since
EndReturned == pc = "idle" /\ untouched

\* C1: while End() runs on a non-empty list and after it has returned, the
\* (start, count) pairs passed to RenderPortion are consecutive ranges of
\* the list from 0, each of one texture and of 1..MAX_PORTION_SIZE sprites,
\* and once End() has returned they end at the list's length.
C1_PortionsPartitionList ==
    /\ (pc # "idle" \/ untouched) => ConsecutivePortions(portions, sprites_)
    /\ (EndReturned /\ sprites_ # <<>>) => PortionsCover(portions, sprites_)

\* A list of more than MAX_PORTION_SIZE sprites rendered in three portions
C1_Witness ==
    /\ EndReturned
    /\ Size(sprites_) > MAX_PORTION_SIZE
    /\ Len(portions) = 3
    /\ portions[1][2] = MAX_PORTION_SIZE

\* Start indices near the two ends of a list: all of them for a short list
ProbeWidth == 4

ProbedStarts(s) ==
    {start \in 0..(Size(s) - 1) :
        start < ProbeWidth \/ start >= Size(s) - ProbeWidth}

\* C2: for every start index below the list's length (of a long list: every
\* start index within ProbeWidth of either end), GetPortionLength(start) is
\* the smaller of MAX_PORTION_SIZE and the length of the longest run of
\* sprites from `start` that have the texture of the sprite at `start`.
C2_PortionLengthIsCappedRun ==
    (pc = "idle" /\ endsLeft = MaxEnds) =>
        \A start \in ProbedStarts(sprites_) :
            GetPortionLength(sprites_, start)
                = Min(MAX_PORTION_SIZE, RunLength(sprites_, start))

\* The textures of a list
TexturesOf(s) == [i \in 1..Len(s) |-> s[i].texture_]

\* A run of MAX_PORTION_SIZE + 1 sprites gives MAX_PORTION_SIZE, then 1
C2_Witness ==
    /\ Size(sprites_) = MAX_PORTION_SIZE + 1
    /\ RunLength(sprites_, 0) = MAX_PORTION_SIZE + 1
    /\ EndReturned
    /\ portions = << <<0, MAX_PORTION_SIZE>>, <<MAX_PORTION_SIZE, 1>> >>

\* A state that is reached: textures [A, A, B, A] rendered with the counts
\* 2, 1, 1
C2_SeparatedRunsNotMerged ==
    /\ TexturesOf(sprites_) = <<"A", "A", "B", "A">>
    /\ EndReturned
    /\ portions = << <<0, 2>>, <<2, 1>>, <<3, 1>> >>

\* C4: every Lock of the vertex buffer asks for at most MAX_PORTION_SIZE * 4
\* slots from 0, every slot written lies in the locked range, every Draw
\* uses at most MAX_PORTION_SIZE * 6 indices and MAX_PORTION_SIZE * 4
\* vertices from 0, and the indices it uses name vertices of the portion.
C4_WithinBufferCapacity ==
    /\ VertexBufferSize = MAX_PORTION_SIZE * 4
    /\ IndexBufferSize = MAX_PORTION_SIZE * 6
    /\ lockRange[1] + lockRange[2] <= VertexBufferSize
    /\ \A j \in DOMAIN vertices :
          j >= lockRange[1] /\ j < lockRange[1] + lockRange[2]
    /\ \A i \in 1..Len(trace) :
          /\ trace[i].op = "Lock" =>
                trace[i].args[1] + trace[i].args[2] <= VertexBufferSize
          /\ trace[i].op = "Draw" =>
                /\ trace[i].args[1] + trace[i].args[2] <= IndexBufferSize
                /\ trace[i].args[3] + trace[i].args[4] <= VertexBufferSize
    /\ pc = "draw" =>
          \A n \in 0..(count * 6 - 1) :
              n \in DOMAIN indexBuffer /\ indexBuffer[n] < count * 4

\* A portion that fills both buffers is being drawn
C4_Witness ==
    /\ pc = "loop"
    /\ trace[Len(trace)].op = "Draw"
    /\ trace[Len(trace)].args = <<0, 12000, 0, 8000>>
    /\ Len(sprites_) > 2000

\* C9: in the portion loop of End(), GetPortionLength is called with a start
\* index below the list's length, the start index never exceeds the list's
\* length, each iteration increases it by at least 1, the loop is left only
\* with the start index equal to the list's length and one Draw issued per
\* portion, and a running End() returns.
C9_PortionLoopTerminates ==
    /\ [](pc \in {"lock", "write", "unlock", "texture", "draw"}
            => startSpriteIndex < Size(sprites_))
    /\ [](pc # "idle" => startSpriteIndex <= Size(sprites_))
    /\ [][pc = "draw" => startSpriteIndex' >= startSpriteIndex + 1]_vars
    /\ [][(pc = "loop" /\ pc' = "idle") =>
            /\ startSpriteIndex = Size(sprites_)
            /\ PortionsCover(portions, sprites_)
            /\ Len(CallsOf(trace, "Draw")) = Len(portions)]_vars
    /\ []<>(pc = "idle")

\* End() has returned from a loop of three iterations over a long list
C9_Witness ==
    /\ EndReturned
    /\ Size(sprites_) = MAX_PORTION_SIZE + 2
    /\ startSpriteIndex = Size(sprites_)
    /\ Len(portions) = 3

----------------------------------------------------------------------------
(* The empty batch *)

\* C3: an End() called while the list is empty returns at once and changes
\* nothing of the Graphics state or the vertex buffer, and makes no call on
\* either: no lock, no write, no draw.
C3_EmptyEndTouchesNoGpuState ==
    [][(End /\ sprites_ = <<>>) =>
          /\ UNCHANGED gpuVars
          /\ trace' = <<>>
          /\ pc' = "idle"]_vars

\* Begin() and then End() with no Draw() between them have returned
C3_Witness ==
    /\ begun
    /\ sprites_ = <<>>
    /\ submitted = <<>>
    /\ EndReturned
    /\ endsLeft < MaxEnds
    /\ trace = <<>>

----------------------------------------------------------------------------
(* The list *)

\* The sprites of the portions ps of s, in the order of ps
RECURSIVE SpritesOf(_, _)
SpritesOf(ps, s) ==
    IF ps = <<>> THEN <<>>
    ELSE SubSeq(s, Head(ps)[1] + 1, Head(ps)[1] + Head(ps)[2])
            \o SpritesOf(Tail(ps), s)

\* C5: once Begin() has been called, the list holds exactly the requests
\* passed to Draw() since the last Begin(), in their order, and those are
\* the sprites a returned End() has rendered.
C5_RendersRequestsSinceBegin ==
    begun =>
        /\ sprites_ = submitted
        /\ EndReturned => SpritesOf(portions, sprites_) = submitted

\* An End() has rendered after a Begin() that emptied a list already rendered
C5_Witness ==
    /\ begun
    /\ EndReturned
    /\ endsLeft = MaxEnds - 2
    /\ Len(submitted) = 1
    /\ drawsLeft = 0
    /\ SpritesOf(portions, sprites_) = submitted

----------------------------------------------------------------------------
(* The index buffer *)

\* The six indices of sprite slot i are 4i, 4i+1, 4i+2, 4i+2, 4i+3, 4i
SlotIndices(buffer, i) ==
    /\ buffer[6 * i] = 4 * i
    /\ buffer[6 * i + 1] = 4 * i + 1
    /\ buffer[6 * i + 2] = 4 * i + 2
    /\ buffer[6 * i + 3] = 4 * i + 2
    /\ buffer[6 * i + 4] = 4 * i + 3
    /\ buffer[6 * i + 5] = 4 * i

\* C6: after construction the index buffer has MAX_PORTION_SIZE * 6
\* elements, those of every sprite slot i are 4i, 4i+1, 4i+2, 4i+2, 4i+3, 4i,
\* and no step of Begin(), Draw() or End() changes the buffer.
C6_IndexBufferFixed ==
    /\ DOMAIN indexBuffer = 0..(2000 * 6 - 1)
    /\ \A i \in 0..(2000 - 1) : SlotIndices(indexBuffer, i)
    /\ [][indexBuffer' = indexBuffer]_vars

\* The last slot still holds its indices after Begin(), Draw() and two End()
C6_Witness ==
    /\ begun
    /\ drawsLeft = 0
    /\ endsLeft = 0
    /\ pc = "idle"
    /\ SlotIndices(indexBuffer, 1999)
    /\ indexBuffer[11999] = 7996

----------------------------------------------------------------------------
(* The vertices *)

\* The vertices of the portion being rendered have been written
PortionWritten == pc \in {"unlock", "texture", "draw"}

\* The positions of the four vertices of sprite i of the portion are those
\* of the rectangle of w x h at position - origin
PlainRectangle(i) ==
    LET sprite == At(sprites_, startSpriteIndex + i)
        x == sprite.position_[1] - sprite.origin_[1]
        y == sprite.position_[2] - sprite.origin_[2]
        w == TexWidth(sprite.texture_)
        h == TexHeight(sprite.texture_)
    IN /\ vertices[4 * i].position_ = <<x, y, 0>>
       /\ vertices[4 * i + 1].position_ = <<x + w, y, 0>>
       /\ vertices[4 * i + 2].position_ = <<x + w, y + h, 0>>
       /\ vertices[4 * i + 3].position_ = <<x, y + h, 0>>

\* C7: the four vertex positions written for a sprite with rotation 0 and
\* scale 1 are (px-ox, py-oy, 0), (px-ox+w, py-oy, 0), (px-ox+w, py-oy+h, 0),
\* (px-ox, py-oy+h, 0), in the slots 0..3 of the sprite.
C7_PlainSpriteRectangle ==
    PortionWritten =>
        \A i \in 0..(count - 1) :
            LET sprite == At(sprites_, startSpriteIndex + i) IN
            (sprite.rotation_ = 0 /\ sprite.scale_ = 1) => PlainRectangle(i)

\* Position (10,10), origin (16,16), texture 32 x 32: the corners are
\* (-6,-6), (26,-6), (26,26), (-6,26)
C7_Witness ==
    /\ PortionWritten
    /\ At(sprites_, startSpriteIndex).position_ = <<10, 10>>
    /\ At(sprites_, startSpriteIndex).origin_ = <<16, 16>>
    /\ At(sprites_, startSpriteIndex).rotation_ = 0
    /\ At(sprites_, startSpriteIndex).scale_ = 1
    /\ vertices[0].position_ = <<-6, -6, 0>>
    /\ vertices[1].position_ = <<26, -6, 0>>
    /\ vertices[2].position_ = <<26, 26, 0>>
    /\ vertices[3].position_ = <<-6, 26, 0>>

----------------------------------------------------------------------------
(* The calls of RenderPortion *)

\* The calls of one portion, in the order the claim gives
PortionCalls(s, start, n) ==
    << Call("Lock", <<0, n * 4>>),
       Call("Write", <<start, n>>),
       Call("Unlock", <<>>),
       Call("SetTexture", <<"TU_DIFFUSE", At(s, start).texture_>>),
       Call("Draw", <<0, n * 6, 0, n * 4>>) >>

\* How many calls of the last portion have been made
CallsMade ==
    CASE pc = "lock" -> 0
      [] pc = "write" -> 1
      [] pc = "unlock" -> 2
      [] pc = "texture" -> 3
      [] pc = "draw" -> 4
      [] OTHER -> 5

\* The calls of the portions ps, the last one up to its first `made` calls
RECURSIVE CallsOfPortions(_, _, _)
CallsOfPortions(ps, s, made) ==
    IF ps = <<>> THEN <<>>
    ELSE IF Len(ps) = 1
         THEN SubSeq(PortionCalls(s, ps[1][1], ps[1][2]), 1, made)
         ELSE PortionCalls(s, ps[1][1], ps[1][2])
                 \o CallsOfPortions(Tail(ps), s, made)

\* The calls End() makes before the portion loop
SetupLength == Len(SetupCalls(1, 1))

\* The calls of the trace after those
LoopCalls == SubSeq(trace, SetupLength + 1, Len(trace))

Names(calls) == [i \in 1..Len(calls) |-> calls[i].op]

\* Slot 4i+k holds vertex k of sprite start+i of the portion, for every
\* sprite of the portion, and no other slot is written
PortionInSlots ==
    LET texture == At(sprites_, startSpriteIndex).texture_ IN
    /\ DOMAIN vertices = 0..(count * 4 - 1)
    /\ \A i \in 0..(count - 1) : \A k \in 0..3 :
          vertices[4 * i + k] =
              SBVertex(At(sprites_, startSpriteIndex + i), k,
                       TexWidth(texture), TexHeight(texture))

\* C8: the calls End() makes for its portions are, portion after portion,
\* Lock(0, count*4), the writes of the portion's vertices, Unlock,
\* SetTexture of the texture of the portion's first sprite, and one
\* Draw(0, count*6, 0, count*4); the vertex buffer is locked from the Lock
\* to the Unlock only, so not when Draw is called, and once written the
\* slots 4i..4i+3 hold the vertices of sprite start+i.
C8_PortionCallOrder ==
    /\ vbLocked <=> pc \in {"write", "unlock"}
    /\ pc \in {"write", "unlock", "texture", "draw"}
          => lockRange = <<0, count * 4>>
    /\ PortionWritten => PortionInSlots
    /\ (sprites_ # <<>> /\ (pc # "idle" \/ untouched)) =>
          /\ Len(trace) >= SetupLength
          /\ Names(LoopCalls) = Names(CallsOfPortions(portions, sprites_, CallsMade))
          /\ LoopCalls = CallsOfPortions(portions, sprites_, CallsMade)
          /\ EndReturned => Len(CallsOf(trace, "Draw")) = Len(portions)

\* An End() has returned after two portions of one sprite each
C8_Witness ==
    /\ EndReturned
    /\ Len(portions) = 2
    /\ portions[2] = <<1, 1>>
    /\ Names(LoopCalls) = <<"Lock", "Write", "Unlock", "SetTexture", "Draw",
                            "Lock", "Write", "Unlock", "SetTexture", "Draw">>
    /\ vertices[0].color_ = ToUInt(At(sprites_, 1).color_)

----------------------------------------------------------------------------
(* End() and the list *)

\* C10: no step of End() changes the list; Draw() changes nothing of the
\* Graphics state or the vertex buffer, makes no call on them, and appends
\* its request after the sprites already in the list, rendered or not; only
\* Begin() empties the list; and an End() that follows an End() with no
\* Begin() or Draw() between them draws the same portions with the same
\* Draw calls.
C10_EndKeepsList ==
    /\ [](EndReturned /\ prevEnd.valid =>
            /\ portions = prevEnd.portions
            /\ CallsOf(trace, "Draw") = prevEnd.draws)
    /\ [][/\ (End \/ EndStep) => sprites_' = sprites_
          /\ Draw =>
                /\ UNCHANGED <<gpuVars, trace>>
                /\ Len(sprites_') = Len(sprites_) + 1
                /\ SubSeq(sprites_', 1, Len(sprites_)) = sprites_
          /\ (sprites_ # <<>> /\ sprites_' = <<>>) => Begin]_vars

\* A second End() has drawn the two portions the first one drew
C10_Witness ==
    /\ EndReturned
    /\ prevEnd.valid
    /\ Len(prevEnd.draws) = 2
    /\ portions = prevEnd.portions
    /\ Len(sprites_) = 2

====
